---- MODULE Spec2Model ----
(***************************************************************************)
(* Torrent-to-local-files matcher of reflink_dedupe_server.                *)
(*                                                                         *)
(*   SpecSlots       buildSlots (algorithms/torrentMatcher.ts), applied by *)
(*                   matchTorrentFiles to a bounded set of torrents.       *)
(*   SpecPieceCache  utils/hashPiece.ts lines 1-84: the piece-hash cache   *)
(*                   kept in memory (pieceCache) and in table piece_hashes.*)
(*   SpecFilePieces  utils/hashPiece.ts lines 86-129: the piece-hash cache *)
(*                   kept in table file_pieces only.                       *)
(*   SpecMatch       paths/torrent/filetree.ts: one getTorrentFiletree     *)
(*                   request over a bounded torrent, catalog and disk,     *)
(*                   with the deferred stores into file_pieces.            *)
(*   SpecRematch     the same request served twice, with failing cache     *)
(*                   lookups, reads and stores.                            *)
(*   SpecMalformed   the request over torrents whose pieces do not fit     *)
(*                   their length or whose piece length is 0.              *)
(*   SpecLimit       the hashPiece tasks of concurrent requests under      *)
(*                   limit = pLimit(8).                                    *)
(*   SpecHashPiece   both hashPiece of utils/hashPiece.ts on bounded files.*)
(*   SpecVerify      the verification of a file's candidates piece by      *)
(*                   piece: computePieces, then the compare loop.          *)
(*   SpecMain        main() of the server, initDatabases() of db/index.ts  *)
(*                   and the database calls of filetree requests.          *)
(*                                                                         *)
(* Bytes are drawn from a two-letter alphabet, SHA-1 is modelled as an     *)
(* injective function of the bytes hashed.                                 *)
(***************************************************************************)
EXTENDS Integers, Sequences, FiniteSets, TLC

VARIABLES
    info,         \* TorrentInfo handed to matchTorrentFiles: pieceLength, files
    slots,        \* the Slot[] built by buildSlots
    built,        \* matchTorrentFiles has run buildSlots
    pieceCache,   \* hashPiece.ts line 6: fileHash -> (pieceIndex -> hashHex)
    piece_hashes, \* table piece_hashes of the in-memory + DB variant
    storeA,       \* the storePieceHashes call in flight (lines 56-84), or None
    lookupA,      \* the getCachedPieceHashes call in flight (lines 30-51), or None
    resultA,      \* what the last getCachedPieceHashes call of lines 30-51 returned
    persistedA,   \* every row an insert.run of line 68 has written so far
    file_pieces,  \* table file_pieces of the DB-only variant (db/index.ts)
    stores,       \* storePieceHashes calls of lines 120-129 in flight
    resultB,      \* what the last getCachedPieceHashes call of lines 110-115 returned
    lastStoreB,   \* the last storePieceHashes call of lines 120-129 that completed
    torrent,      \* the decoded .torrent of the request: piece length, files, pieces
    catalog,      \* table files of the main database: rows (path, hash, file_size)
    disk,         \* the files on disk: absolute path -> bytes
    req,          \* the getTorrentFiletree request being served
    response,     \* what the request answered, or None
    previous,     \* what the request before this one answered, or None
    logged,       \* the messages of logger.error so far
    limitQueue,   \* filetree.ts line 14: the tasks limit() holds back, by request
    limitActive,  \* the hashPiece calls in progress, by request
    computing,    \* the tasks a request's computePieces still awaits (line 52)
    hashCall,     \* the arguments of a hashPiece call: content, offset, length
    hashResult,   \* what that call returned, or None
    verify,       \* the verification of one candidate: computePieces and the compare loop
    mainDb,       \* db/index.ts line 7: the catalog connection, or None
    serverDb,     \* db/index.ts line 8: the server database connection, or None
    initDb,       \* the position of initDatabases() (db/index.ts lines 30-34)
    listening,    \* app.listen has been called and the process is running
    handlers      \* the filetree requests received: the position of each handler

slotVars == <<info, slots, built>>
cacheAVars == <<pieceCache, piece_hashes, storeA, lookupA, resultA, persistedA>>
cacheBVars == <<file_pieces, stores, resultB, lastStoreB>>
matchVars == <<torrent, catalog, disk, req, response, previous, logged>>
limitVars == <<limitQueue, limitActive, computing>>
hashVars == <<hashCall, hashResult>>
verifyVars == <<verify>>
mainVars == <<mainDb, serverDb, initDb, listening, handlers>>

vars == <<info, slots, built,
          pieceCache, piece_hashes, storeA, lookupA, resultA, persistedA,
          file_pieces, stores, resultB, lastStoreB,
          torrent, catalog, disk, req, response, previous, logged,
          limitQueue, limitActive, computing, hashCall, hashResult,
          verify, mainDb, serverDb, initDb, listening, handlers>>

None == [none |-> TRUE]

----------------------------------------------------------------------------
(* Bounds of SpecSlots *)

MaxFiles == 3
MaxFileLen == 4
MaxPieceLength == 3

----------------------------------------------------------------------------
(* The parts of the state a specification leaves alone *)

SlotsIdle == info = None /\ slots = <<>> /\ built = FALSE

CacheAIdle ==
    /\ pieceCache = <<>> /\ piece_hashes = {}
    /\ storeA = None /\ lookupA = None /\ resultA = None /\ persistedA = {}

CacheBIdle ==
    /\ file_pieces = {} /\ stores = <<>> /\ resultB = None /\ lastStoreB = None

LimitIdle == limitQueue = <<>> /\ limitActive = <<>> /\ computing = <<>>

HashIdle == hashCall = None /\ hashResult = None

VerifyIdle == verify = None

MainIdle ==
    /\ mainDb = None /\ serverDb = None /\ initDb = "idle"
    /\ listening = FALSE /\ handlers = <<>>

MatchIdle ==
    /\ torrent = None /\ catalog = {} /\ disk = <<>> /\ req = None /\ response = None
    /\ previous = None /\ logged = {}

----------------------------------------------------------------------------
(* Helpers *)

Min(a, b) == IF a < b THEN a ELSE b

RECURSIVE SumLen(_)
SumLen(fs) == IF fs = <<>> THEN 0 ELSE fs[1].length + SumLen(Tail(fs))

\* Math.ceil(a / b) for a >= 0, b > 0
Ceil(a, b) == (a + b - 1) \div b

\* sequences over S of length lo..hi
SeqsBetween(S, lo, hi) == UNION {[1..n -> S] : n \in lo..hi}

----------------------------------------------------------------------------
(* algorithms/torrentMatcher.ts: buildSlots *)

\* line 56 with an inclusive end (a plausible slip)
SlotOffsetEndInclusive(offsetStart, length) == offsetStart + length - 1

\* line 56: const offsetEnd = offsetStart + f.length
SlotOffsetEnd(offsetStart, length) == offsetStart + length

\* line 57 with Math.ceil for Math.floor (a plausible slip)
FirstPieceCeil(offsetStart, P) == (offsetStart + P - 1) \div P

\* line 57: Math.floor(offsetStart / P)
FirstPiece(offsetStart, P) == offsetStart \div P

\* line 58: Math.floor((offsetEnd - 1) / P); floor(-1 / P) = -1 for offsetEnd = 0
LastPiece(offsetEnd, P) == (offsetEnd - 1) \div P

\* line 59: offsetStart % P
PrefixLen(offsetStart, P) == offsetStart % P

\* lines 61-62: offsetEndMod === 0 ? 0 : (P - offsetEndMod)
SuffixLen(offsetEnd, P) ==
    LET offsetEndMod == offsetEnd % P
    IN  IF offsetEndMod = 0 THEN 0 ELSE P - offsetEndMod

\* line 68 with a dropped lower bound (a plausible slip)
FullyContainedNoLower(pieceStart, pieceEnd, offsetStart, offsetEnd) ==
    pieceEnd <= offsetEnd

\* line 68: pieceStart >= offsetStart && pieceEnd <= offsetEnd
FullyContained(pieceStart, pieceEnd, offsetStart, offsetEnd) ==
    pieceStart >= offsetStart /\ pieceEnd <= offsetEnd

\* lines 64-72: for (k = firstPiece; k <= lastPiece; k++) push k when contained
RECURSIVE MiddlePieceIndices(_, _, _, _, _)
MiddlePieceIndices(k, lastPiece, P, offsetStart, offsetEnd) ==
    IF k > lastPiece THEN <<>>
    ELSE LET pieceStart == k * P
             pieceEnd   == pieceStart + P
             rest == MiddlePieceIndices(k + 1, lastPiece, P, offsetStart, offsetEnd)
         IN  IF FullyContained(pieceStart, pieceEnd, offsetStart, offsetEnd)
             THEN <<k>> \o rest
             ELSE rest

\* lines 54-85: the slot pushed for file i at stream offset `offset`
MakeSlot(i, f, offset, P) ==
    LET offsetStart == offset
        offsetEnd   == SlotOffsetEnd(offsetStart, f.length)
        firstPiece  == FirstPiece(offsetStart, P)
        lastPiece   == LastPiece(offsetEnd, P)
    IN  [ index              |-> i - 1,
          filePathInTorrent  |-> f.path,
          size               |-> f.length,
          offsetStart        |-> offsetStart,
          offsetEnd          |-> offsetEnd,
          firstPiece         |-> firstPiece,
          lastPiece          |-> lastPiece,
          prefixLen          |-> PrefixLen(offsetStart, P),
          suffixLen          |-> SuffixLen(offsetEnd, P),
          middlePieceIndices |-> MiddlePieceIndices(firstPiece, lastPiece, P,
                                                    offsetStart, offsetEnd),
          candidates         |-> <<>> ]

\* lines 53-87: the loop over info.files, offset = offsetEnd after each push
RECURSIVE BuildSlotsFrom(_, _, _, _)
BuildSlotsFrom(i, files, offset, P) ==
    IF i > Len(files) THEN <<>>
    ELSE LET s == MakeSlot(i, files[i], offset, P)
         IN  <<s>> \o BuildSlotsFrom(i + 1, files, s.offsetEnd, P)

\* lines 49-89
buildSlots(inf) == BuildSlotsFrom(1, inf.files, 0, inf.pieceLength)

----------------------------------------------------------------------------
(* SpecSlots: matchTorrentFiles applied to every bounded torrent *)

FileLists ==
    { [i \in 1..Len(ls) |-> [path |-> i, length |-> ls[i]]] :
        ls \in SeqsBetween(0..MaxFileLen, 1, MaxFiles) }

TorrentInfos ==
    { [pieceLength |-> P, files |-> fs] : P \in 1..MaxPieceLength, fs \in FileLists }

InitSlots ==
    /\ info \in TorrentInfos
    /\ slots = <<>>
    /\ built = FALSE
    /\ CacheAIdle
    /\ CacheBIdle
    /\ MatchIdle
    /\ LimitIdle
    /\ HashIdle
    /\ VerifyIdle
    /\ MainIdle

\* torrentMatcher.ts lines 91-98
matchTorrentFiles ==
    /\ ~built
    /\ slots' = buildSlots(info)
    /\ built' = TRUE
    /\ UNCHANGED <<info, cacheAVars, cacheBVars, matchVars, limitVars, hashVars,
                   verifyVars, mainVars>>

NextSlots == matchTorrentFiles

SpecSlots == InitSlots /\ [][NextSlots]_vars

----------------------------------------------------------------------------
(* Derived notions used by the properties of the slot builder *)

\* total stream length T and piece_count = ceil(T / piece_length)
StreamLen(inf) == SumLen(inf.files)
PieceCount(inf) == Ceil(StreamLen(inf), inf.pieceLength)

SeqToSet(s) == {s[i] : i \in 1..Len(s)}

InteriorPieces(s) == SeqToSet(s.middlePieceIndices)

\* boundary pieces of a slot: first_piece if prefix_len > 0, last_piece if suffix_len > 0
LeadingBoundary(s)  == IF s.prefixLen > 0 THEN {s.firstPiece} ELSE {}
TrailingBoundary(s) == IF s.suffixLen > 0 THEN {s.lastPiece} ELSE {}
BoundaryPieces(s) == LeadingBoundary(s) \cup TrailingBoundary(s)

SlotIdx == 1..Len(slots)

RECURSIVE SumSizes(_)
SumSizes(ss) == IF ss = <<>> THEN 0 ELSE ss[1].size + SumSizes(Tail(ss))

AllPieces == 0..(PieceCount(info) - 1)

\* the slots that list piece k as one of their boundary pieces
BoundarySlots(k) == {i \in SlotIdx : k \in BoundaryPieces(slots[i])}

\* the slots whose byte range, or whose position for an empty slot, lies in piece k
OverlapSlots(k) ==
    {i \in SlotIdx : /\ slots[i].offsetStart < (k + 1) * info.pieceLength
                     /\ slots[i].offsetEnd > k * info.pieceLength}

IsRun(S) == \A i \in S, j \in S : \A m \in i..j : m \in S

\* the last slot of the stream
IsLastSlot(i) == i = Len(slots)

----------------------------------------------------------------------------
(* Properties of the slot builder *)

\* C4: the slots tile the byte stream: the first starts at 0, each ends where
\* the next starts, and the sizes sum to T = the sum of the file lengths, so
\* the last slot ends at T; zero-length files included.
C4_SlotsTileStream ==
    built =>
        /\ Len(slots) = Len(info.files)
        /\ \A i \in SlotIdx : slots[i].size = info.files[i].length
        /\ slots[1].offsetStart = 0
        /\ \A i \in 1..(Len(slots) - 1) : slots[i].offsetEnd = slots[i + 1].offsetStart
        /\ SumSizes(slots) = StreamLen(info)
        /\ slots[Len(slots)].offsetEnd = StreamLen(info)

C4_Witness ==
    /\ built
    /\ Len(slots) = 3
    /\ slots[1].size > 0 /\ slots[2].size = 0 /\ slots[3].size > 0
    /\ slots[2].offsetStart % info.pieceLength # 0

\* C6: per slot, interior and boundary pieces cover exactly
\* firstPiece..lastPiece, are disjoint, the interior pieces are a contiguous
\* index range, and there are at most two boundary pieces.
C6_SlotPieceCover ==
    built =>
        \A i \in SlotIdx :
            LET s == slots[i] IN
            /\ InteriorPieces(s) \cup BoundaryPieces(s) = s.firstPiece..s.lastPiece
            /\ InteriorPieces(s) \cap BoundaryPieces(s) = {}
            /\ IsRun(InteriorPieces(s))
            /\ Cardinality(BoundaryPieces(s)) <= 2

C6_Witness ==
    /\ built
    /\ \E i \in SlotIdx :
          /\ slots[i].prefixLen > 0 /\ slots[i].suffixLen > 0
          /\ InteriorPieces(slots[i]) # {}
          /\ Cardinality(BoundaryPieces(slots[i])) = 2

C7_SuffixLenZeroWhenTerminal ==
    built =>
        \A i \in SlotIdx :
            LET s == slots[i]
                aligned == s.offsetEnd % info.pieceLength = 0
            IN  /\ (s.suffixLen = 0) <=> (aligned \/ IsLastSlot(i))
                /\ ~(aligned \/ IsLastSlot(i)) =>
                      s.suffixLen = info.pieceLength - (s.offsetEnd % info.pieceLength)

\* C8 (slot part) as stated: a zero-length file, wherever it sits in the
\* stream, gets a slot of size 0 with neither interior nor boundary pieces.
C8_EmptySlotHasNoPieces ==
    built =>
        \A i \in SlotIdx :
            info.files[i].length = 0 =>
                /\ slots[i].size = 0
                /\ InteriorPieces(slots[i]) = {}
                /\ BoundaryPieces(slots[i]) = {}

----------------------------------------------------------------------------
(* utils/hashPiece.ts: digests and the piece-hash tables *)

\* Bounds of the piece-hash cache specifications
MaxFileHashes == 1
MaxCachePieceLength == 2
MaxCachePieces == 2
MaxStoresInFlight == 1

ByteValues == {0, 1}

Undefined == [undefined |-> TRUE]

\* crypto.createHash('sha1').update(buffer).digest(): injective in the bytes
sha1(bytes) == [sha1 |-> bytes]

\* Buffer.toString('hex') and digest('hex')
toHex(buf) == [hex |-> buf.sha1]

\* Buffer.from(s, 'hex')
fromHex(s) == [sha1 |-> s.hex]

IsBuffer(x) == "sha1" \in DOMAIN x

\* x.toString('hex'): the hex string of a Buffer; a string is returned unchanged
toStringHex(x) == IF IsBuffer(x) THEN toHex(x) ELSE x

\* a row of piece_hashes / file_pieces, PRIMARY KEY (file_hash, piece_length, piece_index)
PieceRow(fileHash, pieceLength, pieceIndex, pieceHash) ==
    [file_hash |-> fileHash, piece_length |-> pieceLength,
     piece_index |-> pieceIndex, piece_hash |-> pieceHash]

SameKey(r, q) ==
    /\ r.file_hash = q.file_hash
    /\ r.piece_length = q.piece_length
    /\ r.piece_index = q.piece_index

\* INSERT OR REPLACE INTO piece_hashes (line 62)
InsertOrReplace(table, row) == {r \in table : ~SameKey(r, row)} \cup {row}

\* INSERT OR IGNORE INTO file_pieces (lines 121-124)
InsertOrIgnore(table, row) ==
    IF \E r \in table : SameKey(r, row) THEN table ELSE table \cup {row}

\* SELECT piece_index, piece_hash ... WHERE file_hash = ? AND piece_length = ?
SelectPieces(table, fileHash, pieceLength) ==
    {r \in table : r.file_hash = fileHash /\ r.piece_length = pieceLength}

\* for (const row of rows) map.set(row.piece_index, row.piece_hash)
RowsToMap(rows) ==
    [i \in {r.piece_index : r \in rows} |->
        (CHOOSE r \in rows : r.piece_index = i).piece_hash]

\* values the cache specifications call the operations with
CacheFileHashes == {<<"hash", n>> : n \in 1..MaxFileHashes}
CachePieceLengths == 1..MaxCachePieceLength
CacheDigests == {sha1(<<b>>) : b \in ByteValues}

RemoveAt(seq, n) == SubSeq(seq, 1, n - 1) \o SubSeq(seq, n + 1, Len(seq))

----------------------------------------------------------------------------
(* utils/hashPiece.ts lines 110-129: the cache kept in file_pieces only *)

\* the lookup that finds no row
getCachedPieceHashesMissB(fileHash, pieceLength) == <<>>

\* lines 110-115
getCachedPieceHashesB(fileHash, pieceLength) ==
    RowsToMap(SelectPieces(file_pieces, fileHash, pieceLength))

\* line 120: a call of storePieceHashes, awaiting prepare (line 121)
StoreTaskB(fileHash, pieceLength, pieceHashes) ==
    [fileHash |-> fileHash, pieceLength |-> pieceLength,
     pieceHashes |-> pieceHashes, i |-> 0, phase |-> "running"]

\* insert.run called with i + 1 for the piece index
StoreRunShiftedB(n) ==
    /\ n \in 1..Len(stores)
    /\ stores[n].phase = "running"
    /\ stores[n].i < Len(stores[n].pieceHashes)
    /\ LET t == stores[n]
           row == PieceRow(t.fileHash, t.pieceLength, t.i + 1,
                           toStringHex(t.pieceHashes[t.i + 1]))
       IN  /\ file_pieces' = InsertOrIgnore(file_pieces, row)
           /\ stores' = [stores EXCEPT ![n].i = @ + 1]
    /\ UNCHANGED <<resultB, lastStoreB>>

\* lines 125-127: one await insert.run(fileHash, pieceLength, i, hex)
StoreRunB(n) ==
    /\ n \in 1..Len(stores)
    /\ stores[n].phase = "running"
    /\ stores[n].i < Len(stores[n].pieceHashes)
    /\ LET t == stores[n]
           row == PieceRow(t.fileHash, t.pieceLength, t.i,
                           toStringHex(t.pieceHashes[t.i + 1]))
       IN  /\ file_pieces' = InsertOrIgnore(file_pieces, row)
           /\ stores' = [stores EXCEPT ![n].i = @ + 1]
    /\ UNCHANGED <<resultB, lastStoreB>>

\* line 128: await insert.finalize(), the call returns
StoreFinalizeB(n) ==
    /\ n \in 1..Len(stores)
    /\ stores[n].phase = "running"
    /\ stores[n].i = Len(stores[n].pieceHashes)
    /\ lastStoreB' = [fileHash |-> stores[n].fileHash,
                      pieceLength |-> stores[n].pieceLength,
                      pieceHashes |-> stores[n].pieceHashes]
    /\ stores' = RemoveAt(stores, n)
    /\ resultB' = None
    /\ UNCHANGED file_pieces

\* a caller of storePieceHashes(fileHash, pieceLength, pieceHashes: Buffer[])
CallStoreB ==
    /\ Len(stores) < MaxStoresInFlight
    /\ \E fileHash \in CacheFileHashes, pieceLength \in CachePieceLengths,
          pieceHashes \in SeqsBetween(CacheDigests, 0, MaxCachePieces) :
          stores' = Append(stores, StoreTaskB(fileHash, pieceLength, pieceHashes))
    /\ UNCHANGED <<file_pieces, resultB, lastStoreB>>

\* a caller of getCachedPieceHashes(fileHash, pieceLength); the result is
\* kept until the next store call completes
CallLookupB ==
    /\ \E fileHash \in CacheFileHashes, pieceLength \in CachePieceLengths :
          resultB' = [fileHash |-> fileHash, pieceLength |-> pieceLength,
                      map |-> getCachedPieceHashesB(fileHash, pieceLength)]
    /\ UNCHANGED <<file_pieces, stores, lastStoreB>>

InitFilePieces ==
    /\ LimitIdle /\ HashIdle /\ SlotsIdle /\ CacheAIdle /\ CacheBIdle /\ MatchIdle
    /\ VerifyIdle /\ MainIdle

NextFilePieces ==
    \/ CallStoreB /\ UNCHANGED <<verifyVars, mainVars, limitVars, hashVars, slotVars, cacheAVars, matchVars>>
    \/ CallLookupB /\ UNCHANGED <<verifyVars, mainVars, limitVars, hashVars, slotVars, cacheAVars, matchVars>>
    \/ \E n \in 1..MaxStoresInFlight : StoreRunB(n) /\ UNCHANGED <<verifyVars, mainVars, limitVars, hashVars, slotVars, cacheAVars, matchVars>>
    \/ \E n \in 1..MaxStoresInFlight : StoreFinalizeB(n) /\ UNCHANGED <<verifyVars, mainVars, limitVars, hashVars, slotVars, cacheAVars, matchVars>>

SpecFilePieces == InitFilePieces /\ [][NextFilePieces]_vars

\* the lookup result holds every (piece_index -> digest) entry of the array M
MapContains(map, M) ==
    \A i \in 1..Len(M) :
        M[i] # Undefined =>
            /\ (i - 1) \in DOMAIN map
            /\ map[i - 1] = toStringHex(M[i])

\* C9: after storePieceHashes(H, P, M) has completed, getCachedPieceHashes(H, P)
\* returns a mapping holding every (piece_index -> digest) entry of M,
\* whatever the cache held before.
C9_StoreThenLookupContains ==
    (/\ resultB # None
     /\ lastStoreB # None
     /\ lastStoreB.fileHash = resultB.fileHash
     /\ lastStoreB.pieceLength = resultB.pieceLength)
        => MapContains(resultB.map, lastStoreB.pieceHashes)

----------------------------------------------------------------------------
(* utils/hashPiece.ts lines 6-84: the cache kept in pieceCache and piece_hashes *)

\* An entry of a map of pieceCache: the hex string the Map holds, and the
\* piece length of the call that put it there (the Map itself does not keep it).
CacheEntry(hashHex, pieceLength) == [piece_hash |-> hashHex, under |-> pieceLength]

\* pieceCache.set(fileHash, map)
CacheSet(cache, fileHash, map) ==
    [h \in DOMAIN cache \cup {fileHash} |-> IF h = fileHash THEN map ELSE cache[h]]

\* the Map<number, string> a caller sees
EntriesToMap(entries) == [i \in DOMAIN entries |-> entries[i].piece_hash]

\* line 34: pieceCache.has(fileHash)
CacheHas(fileHash, pieceLength) == fileHash \in DOMAIN pieceCache

\* lines 30-36: getCachedPieceHashes is called; a hit returns the cached Map,
\* a miss issues the SELECT of lines 38-42
CallLookupA ==
    /\ lookupA = None
    /\ \E fileHash \in CacheFileHashes, pieceLength \in CachePieceLengths :
          IF CacheHas(fileHash, pieceLength)
          THEN /\ resultA' = [fileHash |-> fileHash, pieceLength |-> pieceLength,
                              map |-> EntriesToMap(pieceCache[fileHash])]
               /\ UNCHANGED lookupA
          ELSE /\ lookupA' = [fileHash |-> fileHash, pieceLength |-> pieceLength,
                              phase |-> "query", rows |-> {}]
               /\ UNCHANGED resultA
    /\ UNCHANGED <<pieceCache, piece_hashes, storeA, persistedA>>

\* lines 38-42: the database runs the SELECT
LookupQueryA ==
    /\ lookupA # None
    /\ lookupA.phase = "query"
    /\ lookupA' = [lookupA EXCEPT
                     !.phase = "rows",
                     !.rows = SelectPieces(piece_hashes, lookupA.fileHash,
                                           lookupA.pieceLength)]
    /\ UNCHANGED <<pieceCache, piece_hashes, storeA, resultA, persistedA>>

\* lines 44-50: the rows become a Map, pieceCache.set(fileHash, map), return map
LookupReturnA ==
    /\ lookupA # None
    /\ lookupA.phase = "rows"
    /\ LET rowMap == RowsToMap(lookupA.rows)
           entries == [i \in DOMAIN rowMap |-> CacheEntry(rowMap[i], lookupA.pieceLength)]
       IN  /\ pieceCache' = CacheSet(pieceCache, lookupA.fileHash, entries)
           /\ resultA' = [fileHash |-> lookupA.fileHash,
                          pieceLength |-> lookupA.pieceLength,
                          map |-> rowMap]
    /\ lookupA' = None
    /\ UNCHANGED <<piece_hashes, storeA, persistedA>>

\* lines 56-63: storePieceHashes is called and awaits prepare
CallStoreA ==
    /\ storeA = None
    /\ \E fileHash \in CacheFileHashes, pieceLength \in CachePieceLengths,
          computedPieces \in SeqsBetween(CacheDigests \cup {Undefined}, 0, MaxCachePieces) :
          storeA' = [fileHash |-> fileHash, pieceLength |-> pieceLength,
                     computedPieces |-> computedPieces, i |-> 0]
    /\ UNCHANGED <<pieceCache, piece_hashes, lookupA, resultA, persistedA>>

\* the indices >= i of computedPieces that hold a hash (line 67 skips the others)
DefinedFrom(computedPieces, i) ==
    {j \in i..(Len(computedPieces) - 1) : computedPieces[j + 1] # Undefined}

SetMin(S) == CHOOSE x \in S : \A y \in S : x <= y

\* lines 65-69: one await insert.run(fileHash, pieceLength, i, hash.toString('hex'))
StoreRunA ==
    /\ storeA # None
    /\ DefinedFrom(storeA.computedPieces, storeA.i) # {}
    /\ LET j == SetMin(DefinedFrom(storeA.computedPieces, storeA.i))
           row == PieceRow(storeA.fileHash, storeA.pieceLength, j,
                           toStringHex(storeA.computedPieces[j + 1]))
       IN  /\ piece_hashes' = InsertOrReplace(piece_hashes, row)
           /\ persistedA' = persistedA \cup {row}
           /\ storeA' = [storeA EXCEPT !.i = j + 1]
    /\ resultA' = None
    /\ UNCHANGED <<pieceCache, lookupA>>

\* lines 78-82: the Map of fileHash, or a new one, with every computed hash set
UpdatedEntries(cached, computedPieces, pieceLength) ==
    LET set == DefinedFrom(computedPieces, 0)
    IN  [i \in DOMAIN cached \cup set |->
            IF i \in set
            THEN CacheEntry(toStringHex(computedPieces[i + 1]), pieceLength)
            ELSE cached[i]]

\* the update of pieceCache of lines 78-83 moved before the inserts of lines
\* 65-69 have run: the Map is filled at once and the remaining rows are dropped
StoreFinishBeforeRunA ==
    /\ storeA # None
    /\ LET cached == IF storeA.fileHash \in DOMAIN pieceCache
                     THEN pieceCache[storeA.fileHash] ELSE <<>>
       IN  pieceCache' = CacheSet(pieceCache, storeA.fileHash,
                             UpdatedEntries(cached, storeA.computedPieces,
                                            storeA.pieceLength))
    /\ storeA' = None
    /\ resultA' = None
    /\ UNCHANGED <<piece_hashes, lookupA, persistedA>>

\* lines 71-83: await insert.finalize(), then the update of pieceCache
StoreFinishA ==
    /\ storeA # None
    /\ DefinedFrom(storeA.computedPieces, storeA.i) = {}
    /\ LET cached == IF storeA.fileHash \in DOMAIN pieceCache
                     THEN pieceCache[storeA.fileHash] ELSE <<>>
       IN  pieceCache' = CacheSet(pieceCache, storeA.fileHash,
                             UpdatedEntries(cached, storeA.computedPieces,
                                            storeA.pieceLength))
    /\ storeA' = None
    /\ resultA' = None
    /\ UNCHANGED <<piece_hashes, lookupA, persistedA>>

\* lines 61-71: prepare, an insert.run or finalize rejects; the call ends
\* before the update of pieceCache, the rows written so far stay
StoreFailA ==
    /\ storeA # None
    /\ storeA' = None
    /\ UNCHANGED <<pieceCache, piece_hashes, lookupA, resultA, persistedA>>

InitPieceCache ==
    /\ LimitIdle /\ HashIdle /\ SlotsIdle /\ CacheAIdle /\ CacheBIdle /\ MatchIdle
    /\ VerifyIdle /\ MainIdle

NextPieceCache ==
    \/ CallLookupA /\ UNCHANGED <<verifyVars, mainVars, limitVars, hashVars, slotVars, cacheBVars, matchVars>>
    \/ LookupQueryA /\ UNCHANGED <<verifyVars, mainVars, limitVars, hashVars, slotVars, cacheBVars, matchVars>>
    \/ LookupReturnA /\ UNCHANGED <<verifyVars, mainVars, limitVars, hashVars, slotVars, cacheBVars, matchVars>>
    \/ CallStoreA /\ UNCHANGED <<verifyVars, mainVars, limitVars, hashVars, slotVars, cacheBVars, matchVars>>
    \/ StoreRunA /\ UNCHANGED <<verifyVars, mainVars, limitVars, hashVars, slotVars, cacheBVars, matchVars>>
    \/ StoreFinishA /\ UNCHANGED <<verifyVars, mainVars, limitVars, hashVars, slotVars, cacheBVars, matchVars>>
    \/ StoreFailA /\ UNCHANGED <<verifyVars, mainVars, limitVars, hashVars, slotVars, cacheBVars, matchVars>>

SpecPieceCache == InitPieceCache /\ [][NextPieceCache]_vars

\* the entries of the key (fileHash, pieceLength): persisted rows and entries
\* of pieceCache put under that piece length
PersistedFor(fileHash, pieceLength) ==
    {<<r.piece_index, r.piece_hash>> : r \in SelectPieces(piece_hashes, fileHash, pieceLength)}

InMemoryFor(fileHash, pieceLength) ==
    IF fileHash \in DOMAIN pieceCache
    THEN {<<i, pieceCache[fileHash][i].piece_hash>> :
             i \in {j \in DOMAIN pieceCache[fileHash] :
                       pieceCache[fileHash][j].under = pieceLength}}
    ELSE {}

MapEntries(map) == {<<i, map[i]>> : i \in DOMAIN map}

\* C10: a lookup of (H, P) returns the in-memory and the persisted entries of
\* the key (H, P) and nothing else: no entry stored under another piece
\* length, and every persisted entry of (H, P) even when pieceCache has a map
\* for H. (resultA is dropped as soon as the cache changes, so the entries
\* are those of the moment the lookup returned.)
C10_LookupReturnsEntriesOfKey ==
    resultA # None =>
        LET keyEntries == PersistedFor(resultA.fileHash, resultA.pieceLength)
                            \cup InMemoryFor(resultA.fileHash, resultA.pieceLength)
        IN  /\ MapEntries(resultA.map) \subseteq keyEntries
            /\ \A e \in keyEntries : e[1] \in DOMAIN resultA.map

\* the store in flight has the key of the last lookup and has run some, not
\* all, of its inserts
StoreHalfWayA ==
    /\ storeA # None
    /\ resultA # None
    /\ storeA.fileHash = resultA.fileHash
    /\ storeA.pieceLength = resultA.pieceLength
    /\ storeA.i > 0
    /\ DefinedFrom(storeA.computedPieces, storeA.i) # {}

\* C11: write-then-fence-before-read. Every entry a lookup returns is one an
\* insert.run has already written for that file hash (a store's entries reach
\* pieceCache only after its last insert), and a lookup never waits for a
\* store: whatever storePieceHashes is doing, a lookup can be called, its
\* SELECT can run and it can return.
C11_LookupSeesOnlyPersisted ==
    /\ resultA # None =>
          \A e \in MapEntries(resultA.map) :
              \E r \in persistedA :
                  /\ r.file_hash = resultA.fileHash
                  /\ r.piece_index = e[1]
                  /\ r.piece_hash = e[2]
    /\ storeA # None =>
          IF lookupA = None THEN ENABLED CallLookupA
          ELSE IF lookupA.phase = "query" THEN ENABLED LookupQueryA
          ELSE ENABLED LookupReturnA

\* C16 (cache part, lines 56-84): whether stores complete or fail, pieceCache
\* holds no entry that an insert.run has not written.
C16_CacheEntriesPersisted ==
    \A h \in DOMAIN pieceCache :
        \A i \in DOMAIN pieceCache[h] :
            PieceRow(h, pieceCache[h][i].under, i, pieceCache[h][i].piece_hash) \in persistedA

\* a lookup of the key of a store half-way through its inserts has returned
\* the rows written so far
C11_Witness ==
    /\ StoreHalfWayA
    /\ resultA.map # <<>>
    /\ storeA.i - 1 \in DOMAIN resultA.map
    /\ resultA.map[storeA.i - 1] = toStringHex(storeA.computedPieces[storeA.i])

----------------------------------------------------------------------------
(* paths/torrent/filetree.ts: getTorrentFiletree, with the cache of           *)
(* hashPiece.ts lines 86-129 (hex digests, table file_pieces)                 *)

\* Bounds of SpecMatch
MaxTorrentFiles == 2
MaxTorrentBytes == 5
MaxPieceLen == 2
MaxStrayLen == 4

\* hashPiece.ts lines 94-105: bytesRead bytes from `offset`, at most `length`
hashPiece(content, offset, length) ==
    toHex(sha1(SubSeq(content, offset + 1, Min(offset + length, Len(content)))))

\* a Buffer of no bytes (a slice taken past the end of info.pieces)
EmptyBuffer == [empty |-> TRUE]

\* filetree.ts lines 132-133: pieceHashes.slice(k * 20, k * 20 + 20)
TorrentHash(pieceHashes, k) ==
    IF k < Len(pieceHashes) THEN pieceHashes[k + 1] ELSE EmptyBuffer

\* filetree.ts line 116: path.isAbsolute(c.path) ? c.path
\*                        : path.join(getConfig().rd.DEDUPLICATION_ROOT, c.path)
CandidatePath(cpath) ==
    IF cpath.abs THEN cpath ELSE [abs |-> TRUE, name |-> <<"root", cpath.name>>]

\* filetree.ts line 117: fs.existsSync(candidatePath)
ExistsSync(candidatePath) == candidatePath \in DOMAIN disk

\* the query of line 109 with its WHERE clause dropped: every indexed file
CandidatesAnySize(fileSize) == catalog

\* filetree.ts line 109: SELECT path, hash FROM files WHERE file_size = ?
CandidatesBySize(fileSize) == {r \in catalog : r.file_size = fileSize}

\* the orders in which the rows of a SELECT without ORDER BY may come
Orderings(S) ==
    {q \in [1..Cardinality(S) -> S] : \A i, j \in 1..Cardinality(S) : q[i] = q[j] => i = j}

\* filetree.ts lines 123, 34: with pieceLength 0 and a non-empty file,
\* Math.ceil(f.length / 0) is Infinity and the loop of computePieces never ends
LoopsForever(fileLength, pieceLength) == pieceLength = 0 /\ fileLength > 0

\* filetree.ts line 123: Math.ceil(f.length / pieceLength). Math.ceil(0 / 0)
\* is NaN, and the loops `i < pieceCount` of lines 34 and 127 then run no
\* iteration, as they do for 0.
CandPieceCount(fileLength, pieceLength) ==
    IF pieceLength = 0 THEN 0 ELSE Ceil(fileLength, pieceLength)

\* filetree.ts lines 22-54: computePieces; piece i is the cached string, or
\* hashPiece(filePath, i * pieceLength, pieceLength)
computePieces(content, pieceLength, pieceCount, cachedPieces) ==
    [n \in 1..pieceCount |->
        IF (n - 1) \in DOMAIN cachedPieces
        THEN cachedPieces[n - 1]
        ELSE hashPiece(content, (n - 1) * pieceLength, pieceLength)]

\* filetree.ts lines 129-133: the torrent piece compared with candidate piece i
TorrentPieceIndex(globalOffset, i, pieceLength) ==
    (globalOffset + i * pieceLength) \div pieceLength

\* filetree.ts lines 127-139: every piece equals the torrent's hash
PiecesMatch(computedPieces, pieceCount, globalOffset, pieceLength, pieceHashes) ==
    \A i \in 0..(pieceCount - 1) :
        fromHex(computedPieces[i + 1])
            = TorrentHash(pieceHashes, TorrentPieceIndex(globalOffset, i, pieceLength))

\* filetree.ts lines 115-120: the next candidate, from index `from`, that exists on disk
NextExisting(candidates, from) ==
    LET ok == {i \in from..Len(candidates) : ExistsSync(CandidatePath(candidates[i].path))}
    IN  IF ok = {} THEN Len(candidates) + 1 ELSE SetMin(ok)

\* the candidate loop left at the first match: once a location is found the
\* remaining candidates of the file are not examined
ContinueFirstMatch(r, locations, from) ==
    LET c == IF locations # <<>> THEN Len(r.candidates) + 1
             ELSE NextExisting(r.candidates, from)
        f == torrent.files[r.f]
    IN  IF c <= Len(r.candidates)
        THEN [r EXCEPT !.pc = "lookup", !.c = c, !.locations = locations]
        ELSE LET filetree == Append(r.filetree,
                                [path |-> f.path, size |-> f.length,
                                 locations |-> locations])
             IN  [r EXCEPT
                    !.pc = IF r.f < Len(torrent.files) THEN "query" ELSE "done",
                    !.f = r.f + 1,
                    !.globalOffset = r.globalOffset + f.length,
                    !.candidates = <<>>, !.c = 0, !.locations = <<>>,
                    !.cachedPieces = <<>>,
                    !.filetree = filetree]

\* the loop with `locations` emptied whenever it goes on to another candidate
ContinueFreshLocations(r, locations, from) ==
    LET c == NextExisting(r.candidates, from)
        f == torrent.files[r.f]
    IN  IF c <= Len(r.candidates)
        THEN [r EXCEPT !.pc = "lookup", !.c = c, !.locations = <<>>]
        ELSE LET filetree == Append(r.filetree,
                                [path |-> f.path, size |-> f.length,
                                 locations |-> locations])
             IN  [r EXCEPT
                    !.pc = IF r.f < Len(torrent.files) THEN "query" ELSE "done",
                    !.f = r.f + 1,
                    !.globalOffset = r.globalOffset + f.length,
                    !.candidates = <<>>, !.c = 0, !.locations = <<>>,
                    !.cachedPieces = <<>>,
                    !.filetree = filetree]

\* The synchronous run of the loops of lines 104-159 from candidate index
\* `from` of the current file up to the next await: the lookup of the next
\* existing candidate (line 122), the query of the next file (line 109), or
\* res.json(filetree) (line 159).
ContinueFrom(r, locations, from) ==
    LET c == NextExisting(r.candidates, from)
        f == torrent.files[r.f]
    IN  IF c <= Len(r.candidates)
        THEN [r EXCEPT !.pc = "lookup", !.c = c, !.locations = locations]
        ELSE LET filetree == Append(r.filetree,
                                [path |-> f.path, size |-> f.length,
                                 locations |-> locations])
             IN  [r EXCEPT
                    !.pc = IF r.f < Len(torrent.files) THEN "query" ELSE "done",
                    !.f = r.f + 1,
                    !.globalOffset = r.globalOffset + f.length,
                    !.candidates = <<>>, !.c = 0, !.locations = <<>>,
                    !.cachedPieces = <<>>,
                    !.filetree = filetree]

\* filetree.ts lines 101-102: the state of a request before its first query;
\* hashed: the candidate paths hashPiece was called for (line 46);
\* thrownBy: the call whose rejection reached the catch of line 160;
\* warm: every store deferred before the request started had completed
NewRequest(warm) ==
    [pc |-> "query", f |-> 1, globalOffset |-> 0, candidates |-> <<>>,
     c |-> 0, locations |-> <<>>, cachedPieces |-> <<>>, filetree |-> <<>>,
     hashed |-> {}, thrownBy |-> "", warm |-> warm]

Respond(r) == IF r.pc = "done" THEN [status |-> 200, body |-> r.filetree] ELSE None

\* filetree.ts lines 56-109: the request arrives, the torrent is decoded, the
\* candidates of the first file are queried
StartRequest ==
    /\ req = None
    /\ response = None
    /\ req' = NewRequest(FALSE)
    /\ UNCHANGED <<torrent, catalog, disk, response, previous, logged, cacheBVars>>

\* filetree.ts lines 109-122: the rows of the size query arrive
QueryReturn ==
    /\ req # None
    /\ req.pc = "query"
    /\ \E candidates \in Orderings(CandidatesBySize(torrent.files[req.f].length)) :
          LET r == ContinueFrom([req EXCEPT !.candidates = candidates], <<>>, 1)
          IN  /\ req' = r
              /\ response' = Respond(r)
    /\ UNCHANGED <<torrent, catalog, disk, previous, logged, cacheBVars>>

\* filetree.ts lines 122-125: the cached pieces arrive, computePieces starts
LookupReturn ==
    /\ req # None
    /\ req.pc = "lookup"
    /\ req' = [req EXCEPT
                 !.pc = "compute",
                 !.cachedPieces = getCachedPieceHashesB(req.candidates[req.c].hash,
                                                        torrent.pieceLength)]
    /\ UNCHANGED <<torrent, catalog, disk, response, previous, logged, cacheBVars>>

\* the deferred store handed the torrent's own piece hashes (`pieceHashes` of
\* line 68) in place of the candidate's computed pieces
ScheduledStoreTorrentPieces(fileHash, pieceLength, computedPieces) ==
    [fileHash |-> fileHash, pieceLength |-> pieceLength,
     pieceHashes |-> [n \in 1..Len(torrent.pieces) |-> toHex(torrent.pieces[n])],
     i |-> 0, phase |-> "scheduled"]

\* filetree.ts line 145: setImmediate(() => storePieceHashes(...))
ScheduledStore(fileHash, pieceLength, computedPieces) ==
    [fileHash |-> fileHash, pieceLength |-> pieceLength,
     pieceHashes |-> computedPieces, i |-> 0, phase |-> "scheduled"]

\* lines 125-159 with the deferred store outside `if (matched)`: the pieces of
\* every candidate examined are stored
ComputeReturnStoreAlways ==
    /\ req # None
    /\ req.pc = "compute"
    /\ ~LoopsForever(torrent.files[req.f].length, torrent.pieceLength)
    /\ LET f == torrent.files[req.f]
           cand == req.candidates[req.c]
           candidatePath == CandidatePath(cand.path)
           pieceLength == torrent.pieceLength
           pieceCount == CandPieceCount(f.length, pieceLength)
           computedPieces == computePieces(disk[candidatePath], pieceLength,
                                           pieceCount, req.cachedPieces)
           matched == PiecesMatch(computedPieces, pieceCount, req.globalOffset,
                                  pieceLength, torrent.pieces)
           locations == IF matched THEN Append(req.locations, candidatePath)
                        ELSE req.locations
           hashed == IF \E i \in 0..(pieceCount - 1) : i \notin DOMAIN req.cachedPieces
                     THEN req.hashed \cup {candidatePath} ELSE req.hashed
           r == ContinueFrom([req EXCEPT !.hashed = hashed], locations, req.c + 1)
       IN  /\ req' = r
           /\ response' = Respond(r)
           /\ stores' = Append(stores, ScheduledStore(cand.hash, pieceLength,
                                                      computedPieces))
    /\ UNCHANGED <<torrent, catalog, disk, previous, logged, file_pieces, resultB, lastStoreB>>

\* filetree.ts lines 125-159: the pieces are computed and compared; a match is
\* pushed to locations and its store is deferred; the loops go on
ComputeReturn ==
    /\ req # None
    /\ req.pc = "compute"
    /\ ~LoopsForever(torrent.files[req.f].length, torrent.pieceLength)
    /\ LET f == torrent.files[req.f]
           cand == req.candidates[req.c]
           candidatePath == CandidatePath(cand.path)
           pieceLength == torrent.pieceLength
           pieceCount == CandPieceCount(f.length, pieceLength)
           computedPieces == computePieces(disk[candidatePath], pieceLength,
                                           pieceCount, req.cachedPieces)
           matched == PiecesMatch(computedPieces, pieceCount, req.globalOffset,
                                  pieceLength, torrent.pieces)
           locations == IF matched THEN Append(req.locations, candidatePath)
                        ELSE req.locations
           hashed == IF \E i \in 0..(pieceCount - 1) : i \notin DOMAIN req.cachedPieces
                     THEN req.hashed \cup {candidatePath} ELSE req.hashed
           r == ContinueFrom([req EXCEPT !.hashed = hashed], locations, req.c + 1)
       IN  /\ req' = r
           /\ response' = Respond(r)
           /\ stores' = IF matched
                        THEN Append(stores, ScheduledStore(cand.hash, pieceLength,
                                                           computedPieces))
                        ELSE stores
    /\ UNCHANGED <<torrent, catalog, disk, previous, logged, file_pieces, resultB, lastStoreB>>

\* filetree.ts lines 145-147: the setImmediate callback runs and calls
\* storePieceHashes, which awaits prepare
StoreStartB(n) ==
    /\ n \in 1..Len(stores)
    /\ stores[n].phase = "scheduled"
    /\ \A m \in 1..(n - 1) : stores[m].phase # "scheduled"
    /\ stores' = [stores EXCEPT ![n].phase = "running"]
    /\ UNCHANGED <<file_pieces, resultB, lastStoreB>>

----------------------------------------------------------------------------
(* SpecMatch: one filetree request over a bounded torrent, catalog and disk *)

\* the bytes of piece k of a stream
PieceBytes(stream, k, pieceLength) ==
    SubSeq(stream, k * pieceLength + 1, Min((k + 1) * pieceLength, Len(stream)))

\* info.pieces of the torrent made from `stream`
PieceHashesOf(stream, pieceLength) ==
    [n \in 1..Ceil(Len(stream), pieceLength) |-> sha1(PieceBytes(stream, n - 1, pieceLength))]

\* the file lists of total length n with `count` files
RECURSIVE LengthLists(_, _)
LengthLists(n, count) ==
    IF count = 1 THEN {<<n>>}
    ELSE UNION {{<<first>> \o rest : rest \in LengthLists(n - first, count - 1)} :
                   first \in 0..n}

TorrentOf(P, stream, ls) ==
    [pieceLength |-> P,
     files |-> [i \in 1..Len(ls) |-> [path |-> i, length |-> ls[i]]],
     pieces |-> PieceHashesOf(stream, P),
     stream |-> stream]

\* the torrents of at most maxBytes bytes in at most maxFiles files
TorrentsUpTo(maxBytes, maxFiles) ==
    UNION {{TorrentOf(P, stream, ls) :
              P \in 2..MaxPieceLen,
              ls \in UNION {LengthLists(Len(stream), n) : n \in 1..maxFiles}} :
           stream \in SeqsBetween(ByteValues, 0, maxBytes)}

Torrents == TorrentsUpTo(MaxTorrentBytes, MaxTorrentFiles)

RECURSIVE OffsetOf(_, _)
OffsetOf(files, i) == IF i = 1 THEN 0 ELSE OffsetOf(files, i - 1) + files[i - 1].length

\* the bytes of file i of the torrent the stream was cut into
OriginalBytes(t, i) ==
    SubSeq(t.stream, OffsetOf(t.files, i) + 1, OffsetOf(t.files, i) + t.files[i].length)

\* the whole-file hash of the catalog: a function of the content
WholeFileHash(content) == <<"hash", content>>

CatalogRow(cpath, content) ==
    [path |-> cpath, hash |-> WholeFileHash(content), file_size |-> Len(content)]

OriginalPath(i) == [abs |-> FALSE, name |-> <<"orig", i>>]
StrayPath == [abs |-> TRUE, name |-> <<"stray">>]

\* The catalog and disk: the torrent's own files indexed and on disk (or
\* not), and one more indexed file of any content, on disk or deleted since.
InitMatchOver(torrents, maxStray) ==
    /\ LimitIdle /\ HashIdle /\ SlotsIdle /\ CacheAIdle /\ CacheBIdle
    /\ VerifyIdle /\ MainIdle
    /\ torrent \in torrents
    /\ \E originals \in BOOLEAN,
          stray \in {None} \cup
                    [content : SeqsBetween(ByteValues, 0, maxStray), onDisk : BOOLEAN] :
          LET origIdx == IF originals THEN 1..Len(torrent.files) ELSE {}
              origRows == {CatalogRow(OriginalPath(i), OriginalBytes(torrent, i)) : i \in origIdx}
              strayRows == IF stray = None THEN {} ELSE {CatalogRow(StrayPath, stray.content)}
              strayDisk == IF stray # None /\ stray.onDisk THEN {StrayPath} ELSE {}
              paths == {CandidatePath(OriginalPath(i)) : i \in origIdx} \cup strayDisk
          IN  /\ catalog = origRows \cup strayRows
              /\ disk = [q \in paths |->
                           IF q = StrayPath THEN stray.content
                           ELSE OriginalBytes(torrent, q.name[2][2])]
    /\ req = None
    /\ response = None
    /\ previous = None
    /\ logged = {}

InitMatch == InitMatchOver(Torrents, MaxStrayLen)

NextMatch ==
    \/ StartRequest /\ UNCHANGED <<verifyVars, mainVars, limitVars, hashVars, slotVars, cacheAVars>>
    \/ QueryReturn /\ UNCHANGED <<verifyVars, mainVars, limitVars, hashVars, slotVars, cacheAVars>>
    \/ LookupReturn /\ UNCHANGED <<verifyVars, mainVars, limitVars, hashVars, slotVars, cacheAVars>>
    \/ ComputeReturn /\ UNCHANGED <<verifyVars, mainVars, limitVars, hashVars, slotVars, cacheAVars>>
    \/ \E n \in 1..Len(stores) : StoreStartB(n) /\ UNCHANGED <<verifyVars, mainVars, limitVars, hashVars, slotVars, cacheAVars, matchVars>>
    \/ \E n \in 1..Len(stores) : StoreRunB(n) /\ UNCHANGED <<verifyVars, mainVars, limitVars, hashVars, slotVars, cacheAVars, matchVars>>
    \/ \E n \in 1..Len(stores) : StoreFinalizeB(n) /\ UNCHANGED <<verifyVars, mainVars, limitVars, hashVars, slotVars, cacheAVars, matchVars>>

SpecMatch == InitMatch /\ [][NextMatch]_vars

----------------------------------------------------------------------------
(* SpecRematch: the request served twice, with failing lookups, reads and     *)
(* stores, over smaller torrents                                             *)

\* Bounds of SpecRematch: bytes of the torrent and of the one more indexed
\* file, files of the torrent
MaxRematchBytes == 3
MaxRematchFiles == 1

LogEntry(msg, thrownBy) == [msg |-> msg, thrownBy |-> thrownBy]

\* filetree.ts line 149: logger.error({ err }, 'Failed to store piece hashes')
StoreFailure == LogEntry("Failed to store piece hashes", "storePieceHashes")

\* filetree.ts lines 160-162: the catch of getTorrentFiletree
ErrorResponse == [status |-> 500, body |-> [error |-> "Failed to build torrent filetree"]]

\* filetree.ts line 122: await getCachedPieceHashes(...) rejects (the SELECT of
\* hashPiece.ts line 111 fails); the catch of line 160 answers
LookupFail ==
    /\ req # None
    /\ req.pc = "lookup"
    /\ req' = [req EXCEPT !.pc = "failed", !.thrownBy = "getCachedPieceHashes"]
    /\ response' = ErrorResponse
    /\ logged' = logged \cup {LogEntry("Failed to build torrent filetree",
                                       "getCachedPieceHashes")}
    /\ UNCHANGED <<torrent, catalog, disk, previous, cacheBVars>>

\* filetree.ts lines 44-52, 125: a hashPiece of the candidate rejects (open or
\* read fails), Promise.all rejects, the catch of line 160 answers
HashFail ==
    /\ req # None
    /\ req.pc = "compute"
    /\ LET f == torrent.files[req.f]
           pieceCount == CandPieceCount(f.length, torrent.pieceLength)
       IN  \E i \in 0..(pieceCount - 1) : i \notin DOMAIN req.cachedPieces
    /\ req' = [req EXCEPT !.pc = "failed", !.thrownBy = "hashPiece",
                          !.hashed = @ \cup {CandidatePath(req.candidates[req.c].path)}]
    /\ response' = ErrorResponse
    /\ logged' = logged \cup {LogEntry("Failed to build torrent filetree", "hashPiece")}
    /\ UNCHANGED <<torrent, catalog, disk, previous, cacheBVars>>

\* the callback of line 145 without its try/catch: the rejection is unhandled
\* and ends the process
StoreFailUncaughtB(n) ==
    /\ n \in 1..Len(stores)
    /\ stores[n].phase = "running"
    /\ stores' = <<>>
    /\ req' = IF req = None THEN req ELSE [req EXCEPT !.pc = "crashed"]
    /\ UNCHANGED <<torrent, catalog, disk, response, previous, logged,
                   file_pieces, resultB, lastStoreB>>

\* filetree.ts lines 146-150: storePieceHashes rejects (prepare, a run or
\* finalize fails); the catch logs, the rows written so far stay
StoreFailB(n) ==
    /\ n \in 1..Len(stores)
    /\ stores[n].phase = "running"
    /\ stores' = RemoveAt(stores, n)
    /\ logged' = logged \cup {StoreFailure}
    /\ UNCHANGED <<torrent, catalog, disk, req, response, previous,
                   file_pieces, resultB, lastStoreB>>

\* the same GET /torrent/:id/filetree once more, after the first was answered
Rerun ==
    /\ response # None
    /\ previous = None
    /\ previous' = response
    /\ response' = None
    /\ req' = NewRequest(stores = <<>> /\ StoreFailure \notin logged)
    /\ UNCHANGED <<torrent, catalog, disk, logged, cacheBVars>>

InitRematch == InitMatchOver(TorrentsUpTo(MaxRematchBytes, MaxRematchFiles), MaxRematchBytes)

NextRematch ==
    \/ NextMatch
    \/ LookupFail /\ UNCHANGED <<verifyVars, mainVars, limitVars, hashVars, slotVars, cacheAVars>>
    \/ HashFail /\ UNCHANGED <<verifyVars, mainVars, limitVars, hashVars, slotVars, cacheAVars>>
    \/ \E n \in 1..Len(stores) : StoreFailB(n) /\ UNCHANGED <<verifyVars, mainVars, limitVars, hashVars, slotVars, cacheAVars>>
    \/ Rerun /\ UNCHANGED <<verifyVars, mainVars, limitVars, hashVars, slotVars, cacheAVars>>

SpecRematch == InitRematch /\ [][NextRematch]_vars

----------------------------------------------------------------------------
(* Properties of the match result *)

\* the locations found so far for file j of the torrent
LocationsOf(j) ==
    IF req = None THEN <<>>
    ELSE IF j <= Len(req.filetree) THEN req.filetree[j].locations
    ELSE IF j = req.f THEN req.locations
    ELSE <<>>

FileIdx == IF torrent = None THEN {} ELSE 1..Len(torrent.files)

SlotStart(j) == OffsetOf(torrent.files, j)
SlotEnd(j) == SlotStart(j) + torrent.files[j].length

\* the pieces wholly contained in slot j: k*P >= offset_start, (k+1)*P <= offset_end
PiecesInside(j) ==
    {k \in 0..(Len(torrent.pieces) - 1) :
        /\ k * torrent.pieceLength >= SlotStart(j)
        /\ (k + 1) * torrent.pieceLength <= SlotEnd(j)}

\* the bytes a file put at slot j contributes to piece k of the stream
BytesAtPiece(content, j, k) ==
    SubSeq(content, k * torrent.pieceLength - SlotStart(j) + 1,
                    (k + 1) * torrent.pieceLength - SlotStart(j))

\* every original file of the torrent is indexed with its size and is on disk
OriginalsPresent ==
    \A i \in FileIdx :
        /\ CatalogRow(OriginalPath(i), OriginalBytes(torrent, i)) \in catalog
        /\ ExistsSync(CandidatePath(OriginalPath(i)))
        /\ disk[CandidatePath(OriginalPath(i))] = OriginalBytes(torrent, i)

\* C1 as stated: the content of every path in locations(slot), laid out at the
\* slot's byte range, hashes to the torrent's digest for every piece wholly
\* contained in the slot.
C1_LocationsHashToPieces ==
    \A j \in FileIdx :
        \A n \in 1..Len(LocationsOf(j)) :
            \A k \in PiecesInside(j) :
                sha1(BytesAtPiece(disk[LocationsOf(j)[n]], j, k)) = torrent.pieces[k + 1]

\* C2 as stated: when the exact original files are all in the catalog and on
\* disk, the answer has a location for every slot.
C2_OriginalsAreLocated ==
    (response # None /\ OriginalsPresent) =>
        \A j \in FileIdx : response.body[j].locations # <<>>

\* C3: every path in locations(slot) is the resolved path of a catalog row
\* whose file_size is the slot's size.
C3_LocationsFromSizeQuery ==
    \A j \in FileIdx :
        \A n \in 1..Len(LocationsOf(j)) :
            \E r \in catalog :
                /\ r.file_size = torrent.files[j].length
                /\ CandidatePath(r.path) = LocationsOf(j)[n]

C3_Witness ==
    /\ response # None
    /\ \E j \in FileIdx :
          /\ Len(response.body[j].locations) = 2
          /\ torrent.files[j].length > 0
          /\ \E r \in catalog :
                /\ r.file_size # torrent.files[j].length
                /\ ExistsSync(CandidatePath(r.path))

\* C8 (locations part): the locations of a zero-length torrent file are all
\* zero-length catalog files that exist on disk.
C8_EmptyFileLocations ==
    response # None =>
        \A j \in FileIdx :
            torrent.files[j].length = 0 =>
                SeqToSet(response.body[j].locations)
                    = {CandidatePath(r.path) :
                          r \in {q \in catalog : q.file_size = 0
                                                   /\ ExistsSync(CandidatePath(q.path))}}

\* C12 as stated: no row is written to the piece-hash table by a match while
\* that match still queries candidates, reads the cache or verifies pieces;
\* the table, empty when the request starts, stays empty until the last
\* candidate of the last file has been verified.
C12_WritesAfterReads ==
    (req # None /\ req.pc # "done") => file_pieces = {}

----------------------------------------------------------------------------
(* Properties of the request served twice and of failing calls *)

Answered(r) == r # None /\ r.status = 200

LocationSet(body, j) == SeqToSet(body[j].locations)

\* what lines 115-153 accept for file j when no piece is cached
FreshLocations(j) ==
    LET f == torrent.files[j]
        pieceCount == CandPieceCount(f.length, torrent.pieceLength)
    IN  {CandidatePath(r.path) :
            r \in {q \in CandidatesBySize(f.length) :
                      /\ ExistsSync(CandidatePath(q.path))
                      /\ PiecesMatch(computePieces(disk[CandidatePath(q.path)],
                                                   torrent.pieceLength, pieceCount, <<>>),
                                     pieceCount, SlotStart(j), torrent.pieceLength,
                                     torrent.pieces)}}

C17_ReadFailureIsMiss ==
    (req # None /\ req.thrownBy = "getCachedPieceHashes") =>
        (response = None \/ response.status = 200)

\* C18 as stated: a hashPiece that fails for one candidate eliminates that
\* candidate only; the request is still answered successfully.
C18_HashFailureDropsCandidate ==
    (req # None /\ req.thrownBy = "hashPiece") =>
        (response = None \/ response.status = 200)

----------------------------------------------------------------------------
(* SpecLimit: the hashPiece tasks of concurrently served requests under     *)
(* limit = pLimit(8) of filetree.ts line 14                                  *)

\* filetree.ts line 14: pLimit(8)
ConcurrencyLimit == 8

\* Bounds of SpecLimit
MaxRequests == 2
MaxTasksPerCall == 6

Requests == 1..MaxRequests

RECURSIVE SumOver(_, _)
SumOver(f, S) ==
    IF S = {} THEN 0
    ELSE LET x == CHOOSE y \in S : TRUE IN f[x] + SumOver(f, S \ {x})

\* the hashPiece calls in progress in the process
ActiveCount == SumOver(limitActive, DOMAIN limitActive)

\* filetree.ts lines 34-50: computePieces of request r pushes one limit(...)
\* task per piece that is not cached, then awaits them all (line 52)
ComputePiecesCall(r) ==
    /\ computing[r] = 0
    /\ \E n \in 1..MaxTasksPerCall :
          /\ computing' = [computing EXCEPT ![r] = n]
          /\ limitQueue' = limitQueue \o [i \in 1..n |-> r]
    /\ UNCHANGED limitActive

\* limit() starting the next task whatever the number in progress
LimitStartUnbounded ==
    /\ limitQueue # <<>>
    /\ limitActive' = [limitActive EXCEPT ![Head(limitQueue)] = @ + 1]
    /\ limitQueue' = Tail(limitQueue)
    /\ UNCHANGED computing

\* filetree.ts lines 45-46: limit() starts its oldest task when fewer than 8
\* are in progress; the task calls hashPiece, which opens the file
LimitStart ==
    /\ limitQueue # <<>>
    /\ ActiveCount < ConcurrencyLimit
    /\ limitActive' = [limitActive EXCEPT ![Head(limitQueue)] = @ + 1]
    /\ limitQueue' = Tail(limitQueue)
    /\ UNCHANGED computing

\* hashPiece.ts lines 94-105, filetree.ts line 47: a hashPiece of request r
\* closes its file and returns (or throws); its task is over
HashPieceReturn(r) ==
    /\ limitActive[r] > 0
    /\ limitActive' = [limitActive EXCEPT ![r] = @ - 1]
    /\ computing' = [computing EXCEPT ![r] = @ - 1]
    /\ UNCHANGED limitQueue

InitLimit ==
    /\ SlotsIdle /\ CacheAIdle /\ CacheBIdle /\ MatchIdle /\ HashIdle
    /\ VerifyIdle /\ MainIdle
    /\ limitQueue = <<>>
    /\ limitActive = [r \in Requests |-> 0]
    /\ computing = [r \in Requests |-> 0]

NextLimit ==
    \/ \E r \in Requests : ComputePiecesCall(r) /\ UNCHANGED <<verifyVars, mainVars, hashVars, slotVars, cacheAVars, cacheBVars, matchVars>>
    \/ LimitStart /\ UNCHANGED <<verifyVars, mainVars, hashVars, slotVars, cacheAVars, cacheBVars, matchVars>>
    \/ \E r \in Requests : HashPieceReturn(r) /\ UNCHANGED <<verifyVars, mainVars, hashVars, slotVars, cacheAVars, cacheBVars, matchVars>>

SpecLimit == InitLimit /\ [][NextLimit]_vars

----------------------------------------------------------------------------
(* SpecHashPiece: hashPiece applied to bounded files, offsets and lengths *)

\* Bound of SpecHashPiece: bytes of the file, offset and length of the read
MaxReadBytes == 3

\* Buffer.alloc(n): n zero bytes
Zeros(n) == [i \in 1..n |-> 0]

\* handle.read(buffer, 0, length, start): the bytes of the file from `start`,
\* at most `length` of them
BytesRead(content, start, length) ==
    SubSeq(content, start + 1, Min(start + length, Len(content)))

\* hashPiece.ts lines 11-25: the digest of the whole zero-filled buffer
hashPieceBuffer(content, start, length) ==
    LET read == BytesRead(content, start, length)
    IN  sha1(read \o Zeros(length - Len(read)))

\* a call of hashPiece of lines 11-25
HashPieceBufferCall ==
    /\ hashResult = None
    /\ hashResult' = [digest |-> toHex(hashPieceBuffer(hashCall.content, hashCall.offset,
                                                       hashCall.length))]
    /\ UNCHANGED hashCall

\* a call of hashPiece of lines 94-105
HashPieceHexCall ==
    /\ hashResult = None
    /\ hashResult' = [digest |-> hashPiece(hashCall.content, hashCall.offset,
                                           hashCall.length)]
    /\ UNCHANGED hashCall

InitHashPiece ==
    /\ SlotsIdle /\ CacheAIdle /\ CacheBIdle /\ MatchIdle /\ LimitIdle
    /\ VerifyIdle /\ MainIdle
    /\ hashCall \in [content : SeqsBetween(ByteValues, 0, MaxReadBytes),
                     offset : 0..MaxReadBytes, length : 0..MaxReadBytes]
    /\ hashResult = None

NextHashPiece ==
    \/ HashPieceBufferCall /\ UNCHANGED <<verifyVars, mainVars, limitVars, slotVars, cacheAVars, cacheBVars, matchVars>>
    \/ HashPieceHexCall /\ UNCHANGED <<verifyVars, mainVars, limitVars, slotVars, cacheAVars, cacheBVars, matchVars>>

SpecHashPiece == InitHashPiece /\ [][NextHashPiece]_vars

\* the file ends before `length` bytes from `offset` have been read
ShortRead(call) == Len(BytesRead(call.content, call.offset, call.length)) < call.length

\* C19 as stated: hashPiece hashes exactly `length` bytes from `offset`; on a
\* short read it returns no digest (it fails with IoTruncated).
C19_ExactLengthOrTruncated ==
    hashResult # None =>
        IF ShortRead(hashCall)
        THEN "digest" \notin DOMAIN hashResult
        ELSE hashResult.digest
               = toHex(sha1(SubSeq(hashCall.content, hashCall.offset + 1,
                                   hashCall.offset + hashCall.length)))

\* C19 (the part that holds): when the file has `length` bytes from `offset`,
\* both hashPiece return the digest of exactly those bytes.
C19_ExactWhenNotShort ==
    (hashResult # None /\ ~ShortRead(hashCall)) =>
        hashResult.digest
           = toHex(sha1(SubSeq(hashCall.content, hashCall.offset + 1,
                               hashCall.offset + hashCall.length)))

----------------------------------------------------------------------------
(* SpecMalformed: the request over torrents whose pieces do not fit their   *)
(* length, or whose piece length is 0                                        *)

\* Bound of SpecMalformed: bytes of the torrent and of the one more indexed file
MaxMalformedBytes == 3

\* info.pieces one digest short, one digest long, or 'piece length' 0
MalformedOf(t) ==
    {[t EXCEPT !.pieces = Append(@, sha1(<<b>>))] : b \in ByteValues}
    \cup {[t EXCEPT !.pieceLength = 0]}
    \cup (IF t.pieces = <<>> THEN {}
          ELSE {[t EXCEPT !.pieces = SubSeq(@, 1, Len(@) - 1)]})

MalformedTorrents ==
    UNION {MalformedOf(t) : t \in TorrentsUpTo(MaxMalformedBytes, MaxTorrentFiles)}

\* piece-digest count different from ceil(T / piece_length), or piece_length 0
Malformed(t) ==
    \/ t.pieceLength = 0
    \/ Len(t.pieces) # Ceil(Len(t.stream), t.pieceLength)

InitMalformed == InitMatchOver(MalformedTorrents, MaxMalformedBytes)

SpecMalformed == InitMalformed /\ [][NextMatch]_vars

\* C20 as stated: a malformed torrent is rejected. The request is never
\* answered with a filetree, and it never hangs in the loop of computePieces.
C20_MalformedRejected ==
    (torrent # None /\ Malformed(torrent)) =>
        /\ response # None => response.status # 200
        /\ req # None =>
              ~(req.pc = "compute"
                /\ LoopsForever(torrent.files[req.f].length, torrent.pieceLength))

\* C20, second part alone: computePieces never loops forever
C20_NoEndlessLoop ==
    req # None =>
        ~(req.pc = "compute"
          /\ LoopsForever(torrent.files[req.f].length, torrent.pieceLength))

\* C20: a malformed torrent is never answered with a location
C20_NoLocationForMalformed ==
    (torrent # None /\ Malformed(torrent) /\ response # None /\ response.status = 200) =>
        \A j \in FileIdx : response.body[j].locations = <<>>

----------------------------------------------------------------------------
(* Properties of the candidate loop *)

\* lines 117-143 for one row of file j, nothing cached: the file exists and
\* every piece compared equals the torrent's
AcceptsFresh(row, j) ==
    LET f == torrent.files[j]
        pieceCount == CandPieceCount(f.length, torrent.pieceLength)
        candidatePath == CandidatePath(row.path)
    IN  /\ ExistsSync(candidatePath)
        /\ PiecesMatch(computePieces(disk[candidatePath], torrent.pieceLength,
                                     pieceCount, <<>>),
                       pieceCount, SlotStart(j), torrent.pieceLength, torrent.pieces)

\* the resolved paths of the rows of `candidates` accepted for file j, in the
\* order of `candidates`
RECURSIVE AcceptedInOrder(_, _)
AcceptedInOrder(candidates, j) ==
    IF candidates = <<>> THEN <<>>
    ELSE (IF AcceptsFresh(Head(candidates), j)
          THEN <<CandidatePath(Head(candidates).path)>> ELSE <<>>)
         \o AcceptedInOrder(Tail(candidates), j)

\* the locations pushed so far are those of the candidates before index c
LocationsFollowCandidates ==
    (req # None /\ req.pc \in {"lookup", "compute"}) =>
        req.locations = AcceptedInOrder(SubSeq(req.candidates, 1, req.c - 1), req.f)

\* a file is done: its entry lists the accepted rows of all the candidates
\* returned, in their order
EntryListsAllCandidates ==
    (req # None /\ req' # None /\ Len(req'.filetree) = Len(req.filetree) + 1) =>
        req'.filetree[Len(req'.filetree)].locations
            = AcceptedInOrder(req.candidates, req.f)

----------------------------------------------------------------------------
(* Properties of pieces that straddle two files *)

\* the last byte offset of the torrent's stream
StreamEnd == SlotEnd(Len(torrent.files))

\* the piece in which slot j ends
StraddlingPiece(j) == SlotEnd(j) \div torrent.pieceLength

\* piece StraddlingPiece(j) straddles slots j and j+1, and only these two
Straddles(j) ==
    /\ j + 1 \in FileIdx
    /\ torrent.files[j].length > 0
    /\ torrent.files[j + 1].length > 0
    /\ SlotEnd(j) % torrent.pieceLength # 0
    /\ StraddlingPiece(j) * torrent.pieceLength >= SlotStart(j)
    /\ Min((StraddlingPiece(j) + 1) * torrent.pieceLength, StreamEnd) <= SlotEnd(j + 1)

\* the bytes of a slot-j file from the start of the straddling piece on
tail_bytes(content, j) ==
    SubSeq(content, StraddlingPiece(j) * torrent.pieceLength - SlotStart(j) + 1, Len(content))

\* the bytes of a slot-(j+1) file up to the end of the straddling piece
head_bytes(content, j) ==
    SubSeq(content, 1,
           Min((StraddlingPiece(j) + 1) * torrent.pieceLength, StreamEnd) - SlotEnd(j))

\* the pair (l, r) matches across the boundary of slots j and j+1
Joins(l, r, j) ==
    sha1(tail_bytes(disk[l], j) \o head_bytes(disk[r], j))
        = torrent.pieces[StraddlingPiece(j) + 1]

\* the pieces wholly contained in slot j, the short last piece of the stream included
InteriorOf(j) ==
    {k \in 0..(Len(torrent.pieces) - 1) :
        /\ k * torrent.pieceLength >= SlotStart(j)
        /\ Min((k + 1) * torrent.pieceLength, StreamEnd) <= SlotEnd(j)}

\* the candidates of slot j, on disk, whose interior pieces all have the torrent's digests
InteriorSurvivors(j) ==
    {CandidatePath(r.path) :
        r \in {q \in CandidatesBySize(torrent.files[j].length) :
                  /\ ExistsSync(CandidatePath(q.path))
                  /\ \A k \in InteriorOf(j) :
                        sha1(SubSeq(disk[CandidatePath(q.path)],
                                    k * torrent.pieceLength - SlotStart(j) + 1,
                                    Min((k + 1) * torrent.pieceLength, StreamEnd) - SlotStart(j)))
                            = torrent.pieces[k + 1]}}

\* C22 as stated: for a piece straddling slots j and j+1, a surviving
\* candidate of slot j is accepted if and only if some surviving candidate of
\* slot j+1 completes the piece with it (the digest of its tail bytes followed
\* by the other's head bytes is the piece's digest), and symmetrically.
C22_BoundaryJoin ==
    Answered(response) =>
        \A j \in FileIdx :
            Straddles(j) =>
                /\ LocationSet(response.body, j)
                     = {l \in InteriorSurvivors(j) :
                           \E r \in InteriorSurvivors(j + 1) : Joins(l, r, j)}
                /\ LocationSet(response.body, j + 1)
                     = {r \in InteriorSurvivors(j + 1) :
                           \E l \in InteriorSurvivors(j) : Joins(l, r, j)}

\* C23 (the fixed point) as stated: in the result no candidate remains
\* accepted that has no accepted partner across a boundary of its slot.
C23_ResultIsFixedPoint ==
    Answered(response) =>
        \A j \in FileIdx :
            Straddles(j) =>
                /\ \A l \in LocationSet(response.body, j) :
                      \E r \in LocationSet(response.body, j + 1) : Joins(l, r, j)
                /\ \A r \in LocationSet(response.body, j + 1) :
                      \E l \in LocationSet(response.body, j) : Joins(l, r, j)

----------------------------------------------------------------------------
(* Properties of the state of a candidate during a request *)

\* row has been examined for file j: the loop of lines 115-153 has passed it
Examined(j, row) ==
    /\ req # None
    /\ \/ j <= Len(req.filetree)
       \/ /\ j = req.f
          /\ \E n \in 1..(req.c - 1) : n <= Len(req.candidates) /\ req.candidates[n] = row

\* row is listed in the locations of file j
Listed(j, row) == CandidatePath(row.path) \in SeqToSet(LocationsOf(j))

\* the state of the pair (file j, catalog row): the code keeps `matched` and
\* the list `locations`; a row not yet reached is pending, a row pushed to
\* locations is accepted, a row passed without a push is eliminated
CandidateState(j, row) ==
    IF Listed(j, row) THEN "accepted"
    ELSE IF Examined(j, row) THEN "eliminated"
    ELSE "pending"

----------------------------------------------------------------------------
(* Properties of the verification of a candidate's pieces *)

\* the digests lines 125-139 compare for the candidate under verification
ComputedNow ==
    computePieces(disk[CandidatePath(req.candidates[req.c].path)], torrent.pieceLength,
                  CandPieceCount(torrent.files[req.f].length, torrent.pieceLength),
                  req.cachedPieces)

\* C25 as stated: for every interior piece k of the slot, the digest compared
\* with the torrent's digest k is the digest of the candidate's bytes at the
\* candidate-local offset k * piece_length - offset_start, of length
\* piece_length, for slots that start at a multiple of piece_length or not.
C25_InteriorPieceOffsets ==
    (req # None /\ req.pc = "compute") =>
        \A k \in PiecesInside(req.f) :
            \E i \in 0..(CandPieceCount(torrent.files[req.f].length, torrent.pieceLength) - 1) :
                /\ TorrentPieceIndex(req.globalOffset, i, torrent.pieceLength) = k
                /\ fromHex(ComputedNow[i + 1])
                     = sha1(BytesAtPiece(disk[CandidatePath(req.candidates[req.c].path)],
                                         req.f, k))

\* C26 as stated: the verdict of the verification of lines 123-144 is
\* interior_match if and only if every interior piece of the slot matched (or
\* the slot has none), so the candidates kept for a file are the candidates of
\* its size on disk whose interior pieces all match, and a slot with no
\* interior piece keeps every such candidate.
C26_InteriorVerdict ==
    Answered(response) =>
        \A j \in FileIdx : LocationSet(response.body, j) = InteriorSurvivors(j)

----------------------------------------------------------------------------
(* Properties of what a match writes *)

\* the whole-file hashes a store has been deferred for or a row written for
StoredHashes ==
    {stores[n].fileHash : n \in 1..Len(stores)} \cup {row.file_hash : row \in file_pieces}

\* the whole-file hashes of the candidates accepted for some file so far
AcceptedHashes ==
    {row.hash : row \in {q \in catalog : \E j \in FileIdx : Listed(j, q)}}

\* C28: digests are written back only for candidates whose verification
\* succeeded. Every deferred store and every row of the piece-hash table is
\* keyed by the whole-file hash of a candidate listed in locations, never by
\* that of a candidate only eliminated or skipped as missing, and no step of
\* a match changes the catalog or a file on disk.
C28_WritesOnlyForAccepted ==
    [][/\ StoredHashes' \subseteq AcceptedHashes'
       /\ catalog' = catalog
       /\ disk' = disk]_vars

\* rows have been written for an accepted candidate while another candidate
\* of a non-empty file was eliminated and a third one skipped as missing or
\* eliminated too
C28_Witness ==
    /\ Answered(response)
    /\ file_pieces # {}
    /\ \E j \in FileIdx : \E b \in catalog :
          /\ torrent.files[j].length > 0
          /\ b.file_size = torrent.files[j].length
          /\ CandidateState(j, b) = "eliminated"
          /\ b.hash \notin StoredHashes

----------------------------------------------------------------------------
(* SpecVerify: the verification of the candidates of one file, piece by     *)
(* piece: computePieces (filetree.ts lines 22-54) with limit = pLimit(8),   *)
(* then the compare loop of lines 127-139                                    *)

\* Bounds of SpecVerify
MaxVerifyPieces == 10
MaxVerifyCandidates == 2

\* filetree.ts lines 34-52: computePieces is called for candidate `cand` with
\* pieceCount pieces of which the first cachedCount are cached; one
\* limit(...) task is pushed per piece that is not cached, limit() starts the
\* first 8 of them and holds the others back, and Promise.all is awaited.
\* firstMismatch: the first piece whose digest differs from the torrent's
\* (pieceCount when none does); started: the hashPiece calls started so far.
StartVerification(cand, pieceCount, cachedCount, firstMismatch) ==
    LET tasks == pieceCount - cachedCount
    IN  [cand |-> cand, pc |-> "awaiting", pieceCount |-> pieceCount,
         cachedCount |-> cachedCount, firstMismatch |-> firstMismatch,
         active |-> Min(tasks, ConcurrencyLimit),
         queued |-> tasks - Min(tasks, ConcurrencyLimit),
         started |-> Min(tasks, ConcurrencyLimit),
         i |-> 0, matched |-> TRUE]

Verifications(cand) ==
    {StartVerification(cand, pieceCount, cachedCount, firstMismatch) :
        pieceCount \in 0..MaxVerifyPieces,
        cachedCount \in 0..MaxVerifyPieces,
        firstMismatch \in 0..MaxVerifyPieces}

\* the task of a piece is over and limit() starts the oldest task held back
TaskOver(v) ==
    [v EXCEPT !.active = IF v.queued > 0 THEN v.active ELSE v.active - 1,
              !.queued = IF v.queued > 0 THEN v.queued - 1 ELSE 0,
              !.started = IF v.queued > 0 THEN v.started + 1 ELSE v.started]

\* filetree.ts lines 46-47: a hashPiece call returns its digest
HashPieceReturns ==
    /\ verify.active > 0
    /\ verify' = TaskOver(verify)

\* filetree.ts lines 46, 52, 160-162: a hashPiece call throws; Promise.all
\* rejects at once, the request is answered 500, the other tasks go on
HashPieceThrows ==
    /\ verify.active > 0
    /\ verify' = [TaskOver(verify) EXCEPT
                    !.pc = IF verify.pc = "awaiting" THEN "failed" ELSE verify.pc]

\* computePieces returning without awaiting its tasks
PromiseAllNotAwaited ==
    /\ verify.pc = "awaiting"
    /\ verify' = [verify EXCEPT
                    !.pc = "decided",
                    !.i = Min(verify.firstMismatch, verify.pieceCount),
                    !.matched = verify.firstMismatch >= verify.pieceCount]

\* filetree.ts lines 52-53, 125-153: every task is over, computePieces
\* returns; the loop of lines 127-139 compares piece after piece and breaks at
\* the first mismatch; the candidate is pushed or not, and the lookup of the
\* next candidate is awaited
PromiseAllReturns ==
    /\ verify.pc = "awaiting"
    /\ verify.active = 0
    /\ verify.queued = 0
    /\ verify' = [verify EXCEPT
                    !.pc = "decided",
                    !.i = Min(verify.firstMismatch, verify.pieceCount),
                    !.matched = verify.firstMismatch >= verify.pieceCount]

\* filetree.ts lines 115-125: the next candidate's cached pieces arrive and
\* computePieces is called for it
NextCandidate ==
    /\ verify.pc = "decided"
    /\ verify.cand < MaxVerifyCandidates
    /\ verify' \in {v \in Verifications(verify.cand + 1) :
                      v.cachedCount <= v.pieceCount /\ v.firstMismatch <= v.pieceCount}

InitVerify ==
    /\ SlotsIdle /\ CacheAIdle /\ CacheBIdle /\ MatchIdle /\ LimitIdle /\ HashIdle
    /\ MainIdle
    /\ verify \in {v \in Verifications(1) :
                     v.cachedCount <= v.pieceCount /\ v.firstMismatch <= v.pieceCount}

NextVerify ==
    \/ HashPieceReturns /\ UNCHANGED <<mainVars, limitVars, hashVars, slotVars, cacheAVars, cacheBVars, matchVars>>
    \/ HashPieceThrows /\ UNCHANGED <<mainVars, limitVars, hashVars, slotVars, cacheAVars, cacheBVars, matchVars>>
    \/ PromiseAllReturns /\ UNCHANGED <<mainVars, limitVars, hashVars, slotVars, cacheAVars, cacheBVars, matchVars>>
    \/ NextCandidate /\ UNCHANGED <<mainVars, limitVars, hashVars, slotVars, cacheAVars, cacheBVars, matchVars>>

SpecVerify == InitVerify /\ [][NextVerify]_vars

\* C27: once a piece of a candidate has been found to mismatch, no hashPiece
\* call is started for that candidate any more.
C27_NoHashStartedAfterMismatch ==
    [][(~verify.matched /\ verify'.cand = verify.cand)
          => verify'.started = verify.started]_vars

\* the first piece of a candidate mismatches after more pieces were hashed
\* than limit() runs at once
C27_Witness ==
    /\ ~verify.matched
    /\ verify.i = 0
    /\ verify.started > ConcurrencyLimit

----------------------------------------------------------------------------
(* SpecMain: main() of the server, initDatabases() and the database         *)
(* getters of db/index.ts, and filetree requests                             *)

\* Bound of SpecMain
MaxHandlers == 3

Database(name) == [db |-> name]

\* db/index.ts lines 36-41: getMainDatabase() throws while mainDb is null
getMainDatabaseThrows == mainDb = None

\* db/index.ts lines 43-48: getServerDatabase() throws while serverDb is null
getServerDatabaseThrows == serverDb = None

\* main(), lines 27-56: initDatabases() is called and not awaited: it runs up
\* to its first await (the open of the catalog, db/index.ts line 32); the
\* routes are registered and app.listen is called
main ==
    /\ initDb = "start"
    /\ initDb' = "openMainDbReadonly"
    /\ listening' = TRUE
    /\ UNCHANGED <<mainDb, serverDb, handlers>>

\* db/index.ts line 32: mainDb = await openMainDbReadonly(cfg.rd.DB); then
\* openServerDb runs up to its await of fs.mkdir (line 15)
OpenMainDbReturns ==
    /\ listening
    /\ initDb = "openMainDbReadonly"
    /\ mainDb' = Database("main")
    /\ initDb' = "mkdir"
    /\ UNCHANGED <<serverDb, listening, handlers>>

\* db/index.ts lines 15-16: fs.mkdir is over, the server database is opened
MkdirReturns ==
    /\ listening
    /\ initDb = "mkdir"
    /\ initDb' = "open"
    /\ UNCHANGED <<mainDb, serverDb, listening, handlers>>

\* db/index.ts lines 16-17: the database is open, the schema is executed
OpenServerDbOpens ==
    /\ listening
    /\ initDb = "open"
    /\ initDb' = "exec"
    /\ UNCHANGED <<mainDb, serverDb, listening, handlers>>

\* db/index.ts lines 17-27, 33: serverDb = await openServerDb(cfg.server.DB)
OpenServerDbReturns ==
    /\ listening
    /\ initDb = "exec"
    /\ serverDb' = Database("server")
    /\ initDb' = "done"
    /\ UNCHANGED <<mainDb, listening, handlers>>

\* an await of initDatabases rejects (a database file cannot be opened):
\* nothing awaits initDatabases(), the rejection is unhandled, and the
\* runtime either ends the process or only warns
InitDatabasesRejects ==
    /\ listening
    /\ initDb \in {"openMainDbReadonly", "mkdir", "open", "exec"}
    /\ initDb' = "rejected"
    /\ \E exits \in BOOLEAN : listening' = ~exits
    /\ UNCHANGED <<mainDb, serverDb, handlers>>

\* filetree.ts lines 56-109, 160-162: a filetree request arrives; the handler
\* decodes the torrent and calls getMainDatabase() for its first file
RequestArrives(h) ==
    /\ listening
    /\ handlers[h] = "none"
    /\ handlers' = [handlers EXCEPT
                      ![h] = IF getMainDatabaseThrows THEN "Database not initialized"
                             ELSE "query"]
    /\ UNCHANGED <<mainDb, serverDb, initDb, listening>>

\* filetree.ts lines 109-122, 155-162: the rows arrive; with no candidate on
\* disk the request is answered, else getCachedPieceHashes calls
\* getServerDatabase()
CandidatesReturn(h) ==
    /\ listening
    /\ handlers[h] = "query"
    /\ \E candidate \in BOOLEAN :
          handlers' = [handlers EXCEPT
                         ![h] = IF ~candidate THEN "answered"
                                ELSE IF getServerDatabaseThrows
                                     THEN "Database not initialized"
                                     ELSE "lookup"]
    /\ UNCHANGED <<mainDb, serverDb, initDb, listening>>

\* filetree.ts lines 122-159: the cached pieces arrive, the candidate is
\* verified and the request answered
CachedPiecesReturn(h) ==
    /\ listening
    /\ handlers[h] = "lookup"
    /\ handlers' = [handlers EXCEPT ![h] = "answered"]
    /\ UNCHANGED <<mainDb, serverDb, initDb, listening>>

InitMain ==
    /\ SlotsIdle /\ CacheAIdle /\ CacheBIdle /\ MatchIdle /\ LimitIdle /\ HashIdle
    /\ VerifyIdle
    /\ mainDb = None
    /\ serverDb = None
    /\ initDb = "start"
    /\ listening = FALSE
    /\ handlers = [h \in 1..MaxHandlers |-> "none"]

NextMain ==
    \/ main /\ UNCHANGED <<verifyVars, limitVars, hashVars, slotVars, cacheAVars, cacheBVars, matchVars>>
    \/ OpenMainDbReturns /\ UNCHANGED <<verifyVars, limitVars, hashVars, slotVars, cacheAVars, cacheBVars, matchVars>>
    \/ MkdirReturns /\ UNCHANGED <<verifyVars, limitVars, hashVars, slotVars, cacheAVars, cacheBVars, matchVars>>
    \/ OpenServerDbOpens /\ UNCHANGED <<verifyVars, limitVars, hashVars, slotVars, cacheAVars, cacheBVars, matchVars>>
    \/ OpenServerDbReturns /\ UNCHANGED <<verifyVars, limitVars, hashVars, slotVars, cacheAVars, cacheBVars, matchVars>>
    \/ InitDatabasesRejects /\ UNCHANGED <<verifyVars, limitVars, hashVars, slotVars, cacheAVars, cacheBVars, matchVars>>
    \/ \E h \in 1..MaxHandlers : RequestArrives(h) /\ UNCHANGED <<verifyVars, limitVars, hashVars, slotVars, cacheAVars, cacheBVars, matchVars>>
    \/ \E h \in 1..MaxHandlers : CandidatesReturn(h) /\ UNCHANGED <<verifyVars, limitVars, hashVars, slotVars, cacheAVars, cacheBVars, matchVars>>
    \/ \E h \in 1..MaxHandlers : CachedPiecesReturn(h) /\ UNCHANGED <<verifyVars, limitVars, hashVars, slotVars, cacheAVars, cacheBVars, matchVars>>

SpecMain == InitMain /\ [][NextMain]_vars

\* C30 as stated: no route handler calls getMainDatabase() or
\* getServerDatabase() before initDatabases() has opened both databases: no
\* filetree request fails with 'Database not initialized'.
C30_InitPrecedesHandling ==
    \A h \in 1..MaxHandlers : handlers[h] # "Database not initialized"

====
